---- MODULE Spec2Model ----
(***************************************************************************)
(* A model of board_game_merger: merge_files (merge.py) run by the batch   *)
(* loop of main (__main__.py) over MergeConfig values (config.py).         *)
(*                                                                         *)
(* Files hold newline-delimited JSON.  A JSON value is a tagged tuple, a   *)
(* JSON object (one line of a file) is a sequence of <<name, value>>       *)
(* pairs in the order they are written, a row of a polars frame is a       *)
(* function from the schema's field names to values.                       *)
(***************************************************************************)
EXTENDS FiniteSets, Integers, Sequences, TLC

(***************************************************************************)
(* Bounds.                                                                 *)
(***************************************************************************)
\* the largest number of lines of an input file
MaxRecs == 2

(***************************************************************************)
(* Optional values (Python's None) and JSON values.                        *)
(***************************************************************************)
None == <<>>

Some(x) == <<x>>

IsNone(o) == o = <<>>

Get(o) == o[1]

Null == <<"null">>

JStr(s) == <<"str", s>>

JBool(b) == <<"bool", b>>

JInt(n) == <<"int", n>>

JList(xs) == <<"list", xs>>

JStruct(fs) == <<"struct", fs>>

\* a polars Datetime value, held as the ISO string it was parsed from
Datetime(s) == <<"datetime", s>>

IsNull(v) == v[1] = "null"

\* Python's ordering of the strings the model uses (code point order).
StrOrder == <<"", "0", "1", "2", "2020-01-01", "2021-01-01", "3", "4", "5", "6", "7", "8", "9", "A", "B", "a", "b", "bgg_hotness_id", "checksum", "false", "id", "path", "pub", "true", "ts", "url", "user", "val", "x">>

StrRank(s) == CHOOSE i \in 1..Len(StrOrder) : StrOrder[i] = s

PyStrGeq(a, b) == StrRank(a) >= StrRank(b)

\* str.lower() / polars str.to_lowercase() on the strings of the model
LowerStr(s) == CASE s = "A" -> "a" [] s = "B" -> "b" [] OTHER -> s


(***************************************************************************)
(* Schemas (schemas.py): a schema is the sequence of <<name, dtype>> in    *)
(* declaration order.  The model keeps of every item type the columns the  *)
(* configurations name and one payload column: "val" is a payload column   *)
(* (name, rank, cooperative, image_url or image_file), "id" the site's id  *)
(* column (bgg_id, dbpedia_id, ...), "user" bgg_user_name, "pub"           *)
(* published_at and "ts" scraped_at.                                       *)
(***************************************************************************)
DString == <<"String">>

DInt64 == <<"Int64">>

DBoolean == <<"Boolean">>

DList(t) == <<"List", t>>

DStruct(fields) == <<"Struct", fields>>

\* the dtype of image_file (schemas.py 17-25)
ImageFile == DList(DStruct(<<<<"url", DString>>, <<"path", DString>>, <<"checksum", DString>>>>))

\* GAME_ITEM_SCHEMA with the dtypes of the payload and id columns meant
GameItemSchema(val_type, id_type) ==
    <<<<"val", val_type>>, <<"id", id_type>>, <<"pub", DString>>, <<"ts", DString>>>>

\* USER_ITEM_SCHEMA: bgg_user_name, a String payload (country), the timestamps
UserItemSchema ==
    <<<<"user", DString>>, <<"val", DString>>, <<"pub", DString>>, <<"ts", DString>>>>

\* RATING_ITEM_SCHEMA: bgg_id, bgg_user_name, an Int64 payload
\* (bgg_user_play_count), the timestamps
RatingItemSchema ==
    <<<<"id", DInt64>>, <<"user", DString>>, <<"val", DInt64>>, <<"pub", DString>>,
      <<"ts", DString>>>>

Range(f) == {f[i] : i \in DOMAIN f}

\* the column names of a schema, in declaration order
Columns(schema) == [i \in DOMAIN schema |-> schema[i][1]]

\* the timestamps the model draws for published_at and scraped_at
T1 == "2020-01-01"

T2 == "2021-01-01"

Timestamps == {T1, T2}

(***************************************************************************)
(* Column expressions (polars IntoExpr).  py is the Python type of the     *)
(* configured value: "str" for a bare column name, "Expr" for pl.col(...)  *)
(* with an optional .str method.                                           *)
(***************************************************************************)
ColName(c) == [py |-> "str", col |-> c, fn |-> "col"]

ToLowercase(c) == [py |-> "Expr", col |-> c, fn |-> "to_lowercase"]

ToDatetime(c) == [py |-> "Expr", col |-> c, fn |-> "to_datetime"]

\* the value of expression e on a row
Eval(e, row) ==
    LET v == row[e.col]
    IN  CASE IsNull(v) -> Null
          [] e.fn = "to_lowercase" -> JStr(LowerStr(v[2]))
          [] e.fn = "to_datetime" -> Datetime(v[2])
          [] OTHER -> v

EvalAll(es, row) == [i \in DOMAIN es |-> Eval(es[i], row)]

\* the order of two non-null values of one column
ValLess(a, b) ==
    IF a[1] = "int" THEN a[2] < b[2] ELSE StrRank(a[2]) < StrRank(b[2])

\* polars sort on one column: does value x come strictly before value y
ColPrec(x, y, descending, nulls_last) ==
    CASE IsNull(x) -> ~nulls_last
      [] IsNull(y) -> nulls_last
      [] OTHER -> IF descending THEN ValLess(y, x) ELSE ValLess(x, y)

RECURSIVE SortPrec(_, _, _, _, _)
\* polars sort on the columns by: does row a come strictly before row b
SortPrec(a, b, by, descending, nulls_last) ==
    IF by = <<>> THEN FALSE
    ELSE LET x == Eval(Head(by), a)
             y == Eval(Head(by), b)
         IN  IF x = y THEN SortPrec(a, b, Tail(by), descending, nulls_last)
             ELSE ColPrec(x, y, descending, nulls_last)

PermSeqs(n) == {p \in [1..n -> 1..n] : \A i, j \in 1..n : p[i] = p[j] => i = j}

\* LazyFrame.sort(by, descending, nulls_last) with maintain_order left False:
\* every arrangement of the rows that respects the order; rows that compare
\* equal may come out in any order.
Sort(rows, by, descending, nulls_last) ==
    {[i \in 1..Len(rows) |-> rows[p[i]]] :
        p \in {q \in PermSeqs(Len(rows)) :
                 \A i, j \in 1..Len(rows) :
                    i < j => ~SortPrec(rows[q[j]], rows[q[i]], by, descending, nulls_last)}}

\* the sorts polars has done so far (memo) with this one added; a sort with one
\* admissible order needs no entry
Remember(memo, rows, by, descending, nulls_last, sorted) ==
    IF Cardinality(Sort(rows, by, descending, nulls_last)) > 1
    THEN memo \cup {[rows |-> rows, by |-> by, descending |-> descending,
                     nulls_last |-> nulls_last, sorted |-> sorted]}
    ELSE memo

\* TieOrder as it would be if the sort drew the order of ties afresh on every
\* run (a sort seeded per process)
TieOrderPerRun(memo, rows, by, descending, nulls_last) ==
    Sort(rows, by, descending, nulls_last)

\* the arrangements a sort of merge_files may give: merge_files hands polars
\* the frame and the sort arguments and nothing that varies from run to run
\* (no seed, no clock), so the order of ties, which polars does not document,
\* is the one the same sort of the same frame gave before (memo); a sort not
\* done before may give any admissible arrangement
TieOrder(memo, rows, by, descending, nulls_last) ==
    {s \in Sort(rows, by, descending, nulls_last) :
        \A m \in memo :
            (m.rows = rows /\ m.by = by /\ m.descending = descending
                /\ m.nulls_last = nulls_last) => m.sorted = s}

RECURSIVE KeepFirstNullsDistinct(_, _, _)
\* KeepFirst as it would be if a null key never equalled another null key
KeepFirstNullsDistinct(rows, i, key_col) ==
    IF i > Len(rows) THEN <<>>
    ELSE LET k == EvalAll(key_col, rows[i])
             seen == /\ \A n \in DOMAIN k : ~IsNull(k[n])
                     /\ \E j \in 1..(i - 1) : EvalAll(key_col, rows[j]) = k
         IN  (IF seen THEN <<>> ELSE <<rows[i]>>)
                \o KeepFirstNullsDistinct(rows, i + 1, key_col)

RECURSIVE KeepFirst(_, _, _)
\* the rows of rows[i..] whose key is not the key of an earlier row
KeepFirst(rows, i, key_col) ==
    IF i > Len(rows) THEN <<>>
    ELSE LET seen == \E j \in 1..(i - 1) :
                        EvalAll(key_col, rows[j]) = EvalAll(key_col, rows[i])
         IN  (IF seen THEN <<>> ELSE <<rows[i]>>) \o KeepFirst(rows, i + 1, key_col)

\* LazyFrame.unique(subset, keep="first") with maintain_order left False: the
\* first row of every key, the rows in any order.
Unique(rows, key_col) ==
    LET kept == KeepFirst(rows, 1, key_col)
    IN  {[i \in 1..Len(kept) |-> kept[p[i]]] : p \in PermSeqs(Len(kept))}

(***************************************************************************)
(* Reading and writing newline-delimited JSON.                             *)
(***************************************************************************)
\* the value of the pair named name, null when the object has none
Member(pairs, name) ==
    IF \E i \in DOMAIN pairs : pairs[i][1] = name
    THEN pairs[CHOOSE i \in DOMAIN pairs : pairs[i][1] = name][2]
    ELSE Null

Digits == <<"0", "1", "2", "3", "4", "5", "6", "7", "8", "9">>

\* an integer of one digit as a string
IntStr(n) == Digits[n + 1]

\* the integer a string of one digit spells
StrInt(d) == (CHOOSE i \in DOMAIN Digits : Digits[i] = d) - 1

RECURSIVE ReadValues(_, _)
RECURSIVE ReadItems(_, _)
RECURSIVE ReadFields(_, _)
\* what a column of dtype t may hold after JSON value v was read into it: a
\* value of the dtype passes, an object gets the declared fields in declared
\* order, a value of another type is replaced by null or by its cast
ReadValues(v, t) ==
    CASE IsNull(v) -> {Null}
      [] t[1] = "String" ->
            (CASE v[1] = "str" -> {v}
               [] v[1] = "int" -> {Null, JStr(IntStr(v[2]))}
               [] v[1] = "bool" -> {Null, JStr(IF v[2] THEN "true" ELSE "false")}
               [] OTHER -> {Null})
      [] t[1] = "Int64" ->
            (CASE v[1] = "int" -> {v}
               [] v[1] = "bool" -> {Null, JInt(IF v[2] THEN 1 ELSE 0)}
               [] v[1] = "str" /\ v[2] \in Range(Digits) -> {Null, JInt(StrInt(v[2]))}
               [] OTHER -> {Null})
      [] t[1] = "Boolean" -> IF v[1] = "bool" THEN {v} ELSE {Null}
      [] t[1] = "List" ->
            IF v[1] = "list" THEN {JList(xs) : xs \in ReadItems(v[2], t[2])} ELSE {Null}
      [] OTHER ->
            IF v[1] = "struct" THEN {JStruct(fs) : fs \in ReadFields(v[2], t[2])} ELSE {Null}

\* the items of a list, each read as dtype t
ReadItems(vals, t) ==
    IF vals = <<>> THEN {<<>>}
    ELSE {<<h>> \o r : h \in ReadValues(Head(vals), t), r \in ReadItems(Tail(vals), t)}

\* the declared fields, each read from the member of that name; a member the
\* object lacks is null, a member that is not declared is ignored
ReadFields(pairs, fields) ==
    IF fields = <<>> THEN {<<>>}
    ELSE {<<<<Head(fields)[1], h>>>> \o r :
            h \in ReadValues(Member(pairs, Head(fields)[1]), Head(fields)[2]),
            r \in ReadFields(pairs, Tail(fields))}

\* the row of a frame with the given fields
Row(fields) == [c \in {fields[i][1] : i \in DOMAIN fields} |-> Member(fields, c)]

\* ParseLine as it would be if values were taken by position, not by name
ParseLinePositional(line, schema) ==
    LET n == IF Len(line) < Len(schema) THEN Len(line) ELSE Len(schema)
    IN  {Row(fs) : fs \in ReadFields([i \in 1..n |-> <<schema[i][1], line[i][2]>>], schema)}

\* pl.scan_ndjson(schema=..., ignore_errors=True) on one line: the rows the
\* line may be read as
ParseLine(line, schema) == {Row(fs) : fs \in ReadFields(line, schema)}

RECURSIVE ScanLines(_, _)
\* the lines of one file
ScanLines(lines, schema) ==
    IF lines = <<>> THEN {<<>>}
    ELSE {<<h>> \o r : h \in ParseLine(Head(lines), schema), r \in ScanLines(Tail(lines), schema)}

RECURSIVE ScanNdjson(_, _, _)
\* pl.scan_ndjson(source=in_paths, schema=...): the frames the files may be
\* read as, their rows concatenated
ScanNdjson(fs, in_paths, schema) ==
    IF in_paths = <<>> THEN {<<>>}
    ELSE {a \o b : a \in ScanLines(Get(fs[Head(in_paths)]), schema),
                   b \in ScanNdjson(fs, Tail(in_paths), schema)}

\* DataFrame.write_ndjson: one object per row, the frame's columns in order
WriteNdjson(frame) ==
    [i \in DOMAIN frame.rows |->
        [c \in DOMAIN frame.cols |-> <<frame.cols[c], frame.rows[i][frame.cols[c]]>>]]

(***************************************************************************)
(* The stages of merge_files.                                              *)
(***************************************************************************)
\* a recency floor (latest_min) with its Python type: a str, or the datetime
\* with_defaults computes (config.py 70-71); v is the instant as an ISO string
StrFloor(s) == [py |-> "str", v |-> s]

DatetimeFloor(s) == [py |-> "datetime", v |-> s]

RECURSIVE SelectRows(_, _, _)
\* the rows of rows[i..] that satisfy the polars predicate e >= floor
SelectRows(rows, i, cfg) ==
    IF i > Len(rows) THEN <<>>
    ELSE LET v == Eval(cfg.latest_col[1], rows[i])
             ok == ~IsNull(v) /\ PyStrGeq(v[2], Get(cfg.latest_min).v)
         IN  (IF ok THEN <<rows[i]>> ELSE <<>>) \o SelectRows(rows, i + 1, cfg)

\* merge.py 78: latest_col[0] >= latest_min is evaluated by Python before
\* filter() is called; a bare column name (a str) against a datetime raises
\* TypeError ('>=' not supported between 'str' and 'datetime.datetime')
FloorTypeMismatch(cfg) ==
    /\ ~IsNone(cfg.latest_min)
    /\ cfg.latest_col[1].py = "str"
    /\ Get(cfg.latest_min).py = "datetime"

\* merge.py 76-78: data.filter(latest_col[0] >= latest_min), for a floor that
\* compares (~FloorTypeMismatch).  On an Expr the comparison builds a polars
\* predicate (the floors drawn for an Expr have the type of its values); on a
\* bare column name Python compares the name with the str floor and filter()
\* gets a bool.
RecencyFilter(rows, cfg) ==
    CASE IsNone(cfg.latest_min) -> rows
      [] cfg.latest_col[1].py = "Expr" -> SelectRows(rows, 1, cfg)
      [] OTHER -> IF PyStrGeq(cfg.latest_col[1].col, Get(cfg.latest_min).v)
                  THEN rows ELSE <<>>

\* Dedup as it would be with the recency sort ascending
DedupOldestFirst(memo, rows, cfg) ==
    UNION {{[sorted |-> s, rows |-> k] : k \in Unique(s, cfg.key_col)} :
              s \in TieOrder(memo, rows, cfg.latest_col, FALSE, TRUE)}

\* merge.py 90-95: the possible outcomes of sort + unique(keep="first"), each
\* with the arrangement the sort gave
Dedup(memo, rows, cfg) ==
    UNION {{[sorted |-> s, rows |-> k] : k \in Unique(s, cfg.key_col)} :
              s \in TieOrder(memo, rows, cfg.latest_col, TRUE, TRUE)}

\* merge.py 97-106
SortStage(memo, rows, cfg) ==
    IF IsNone(cfg.sort_fields) THEN {rows}
    ELSE TieOrder(memo, rows, Get(cfg.sort_fields), cfg.sort_descending, FALSE)

RECURSIVE Without(_, _)
\* the names of cols that are not in the set names, in order
Without(cols, names) ==
    IF cols = <<>> THEN <<>>
    ELSE (IF Head(cols) \in names THEN <<>> ELSE <<Head(cols)>>) \o Without(Tail(cols), names)

\* Projection as it would be with select(fieldnames_exclude) for
\* select(pl.exclude(fieldnames_exclude))
ProjectionSelectsExcluded(cfg) ==
    CASE ~IsNone(cfg.fieldnames_include) -> Get(cfg.fieldnames_include)
      [] ~IsNone(cfg.fieldnames_exclude) -> Get(cfg.fieldnames_exclude)
      [] OTHER -> Columns(cfg.schema)

\* merge.py 108-113: the columns of the collected frame
Projection(cfg) ==
    CASE ~IsNone(cfg.fieldnames_include) -> Get(cfg.fieldnames_include)
      [] ~IsNone(cfg.fieldnames_exclude) ->
            Without(Columns(cfg.schema), Range(Get(cfg.fieldnames_exclude)))
      [] OTHER -> Columns(cfg.schema)

Select(rows, cols) ==
    [cols |-> cols, rows |-> [i \in DOMAIN rows |-> [c \in Range(cols) |-> rows[i][c]]]]

\* str.to_datetime is strict: a string that is no timestamp makes collect fail
StrictFails(e, row) ==
    /\ e.fn = "to_datetime"
    /\ ~IsNull(row[e.col])
    /\ row[e.col][2] \notin Timestamps

\* does one of the expressions es fail on one of the rows
Fails(es, rows) == \E i \in DOMAIN rows, n \in DOMAIN es : StrictFails(es[n], rows[i])

\* the sort fields fail on the rows the dedup stage kept
SortFails(rows, cfg) == ~IsNone(cfg.sort_fields) /\ Fails(Get(cfg.sort_fields), rows)

\* the column names of the expressions es
ColsOf(es) == {es[i].col : i \in DOMAIN es}

\* merge.py 78-116: does the plan name a column the schema does not declare
\* (in the key, recency or sort expressions or in the include-list); collect
\* then raises (pl.exclude of such a name excludes nothing)
MissingColumn(cfg) ==
    LET named == ColsOf(cfg.key_col) \cup ColsOf(cfg.latest_col)
                    \cup (IF IsNone(cfg.sort_fields) THEN {} ELSE ColsOf(Get(cfg.sort_fields)))
                    \cup (IF IsNone(cfg.fieldnames_include) THEN {}
                          ELSE Range(Get(cfg.fieldnames_include)))
    IN  ~(named \subseteq Range(Columns(cfg.schema)))

\* merge.py 76-95 on the frame scan: the possible outcomes of the dedup stage
Deduped(memo, scan, cfg) == Dedup(memo, RecencyFilter(scan, cfg), cfg)

\* merge.py 78, 91: does a to_datetime of the recency columns fail: the
\* filter evaluates the first of them, if it is an expression, on every row;
\* the sort evaluates all of them on the rows the filter kept
RecencyFails(scan, cfg) ==
    \/ /\ ~IsNone(cfg.latest_min) /\ cfg.latest_col[1].py = "Expr"
       /\ Fails(<<cfg.latest_col[1]>>, scan)
    \/ Fails(cfg.latest_col, RecencyFilter(scan, cfg))

\* merge.py 76-116: does collect fail on the frame scan for a to_datetime of
\* the recency columns, of the key columns (on the rows the recency filter
\* kept) or of the sort fields (on the rows kept per key)
CollectFails(memo, scan, cfg) ==
    \/ RecencyFails(scan, cfg)
    \/ Fails(cfg.key_col, RecencyFilter(scan, cfg))
    \/ \E d \in Deduped(memo, scan, cfg) : SortFails(d.rows, cfg)

\* the memo after the two sorts of a merge: the recency sort of the filtered
\* rows gave sorted, the sort stage made rows of kept
Remembered(memo, scan, cfg, sorted, kept, rows) ==
    LET m1 == Remember(memo, RecencyFilter(scan, cfg), cfg.latest_col, TRUE, TRUE, sorted)
    IN  IF IsNone(cfg.sort_fields) THEN m1
        ELSE Remember(m1, kept, Get(cfg.sort_fields), cfg.sort_descending, FALSE, rows)

\* merge.py 76-106 on the frame scan: the possible row sequences after the
\* sort stage, each with the sorts remembered
Merged(memo, scan, cfg) ==
    IF RecencyFails(scan, cfg) \/ Fails(cfg.key_col, RecencyFilter(scan, cfg)) THEN {}
    ELSE UNION {{[rows |-> r, memo |-> Remembered(memo, scan, cfg, d.sorted, d.rows, r)] :
                    r \in SortStage(Remember(memo, RecencyFilter(scan, cfg), cfg.latest_col,
                                             TRUE, TRUE, d.sorted),
                                    d.rows, cfg)} :
                  d \in {x \in Deduped(memo, scan, cfg) : ~SortFails(x.rows, cfg)}}

(***************************************************************************)
(* The cleaning pass (merge.py 144-149).                                   *)
(***************************************************************************)
\* Truthy as it would be if the test were "v is not None"
TruthyNotNone(v) == v[1] # "null"

\* Python's bool(v) of a value json.loads returned
Truthy(v) ==
    CASE v[1] = "null" -> FALSE
      [] v[1] = "str" -> v[2] # ""
      [] v[1] = "int" -> v[2] # 0
      [] v[1] = "bool" -> v[2]
      [] OTHER -> Len(v[2]) > 0

RECURSIVE DropEmpty(_)
\* {k: v for k, v in row.items() if v}
DropEmpty(line) ==
    IF line = <<>> THEN <<>>
    ELSE (IF Truthy(Head(line)[2]) THEN <<Head(line)>> ELSE <<>>) \o DropEmpty(Tail(line))

RECURSIVE SortKeys(_)
RECURSIVE SortValue(_)
\* json.dump(sort_keys=True) on a value: the keys of every object are sorted,
\* those of objects nested in objects and in lists included
SortValue(v) ==
    CASE v[1] = "struct" -> JStruct(SortKeys(v[2]))
      [] v[1] = "list" -> JList([i \in DOMAIN v[2] |-> SortValue(v[2][i])])
      [] OTHER -> v

\* json.dump(sort_keys=True) on an object: the pairs by name (insertion sort),
\* each value with its own keys sorted
SortKeys(line) ==
    IF line = <<>> THEN <<>>
    ELSE LET rest == SortKeys(Tail(line))
             head == <<Head(line)[1], SortValue(Head(line)[2])>>
             n == Cardinality({i \in DOMAIN rest : ~PyStrGeq(rest[i][1], head[1])})
         IN  SubSeq(rest, 1, n) \o <<head>> \o SubSeq(rest, n + 1, Len(rest))

\* one iteration of the loop of merge.py 144-149
CleanRow(line, drop_empty, sort_keys) ==
    LET row == IF drop_empty THEN DropEmpty(line) ELSE line
    IN  IF sort_keys THEN SortKeys(row) ELSE row

(***************************************************************************)
(* State.                                                                  *)
(***************************************************************************)
VARIABLES
    files,    \* path -> None (no such file) or Some(the lines the file holds on disk)
    before,   \* the files as they were when main started
    jobs,     \* the tuple of MergeConfig values main iterates over
    args,     \* overwrite, drop_empty, sort_keys as main passes them to every call
    cur,      \* the index of the job the loop of main is at
    pc,       \* where the current call of merge_files is
    scanned,  \* job -> None or Some(rows of the frame scan_ndjson gave, merge.py 62)
    sorts,    \* the sorts polars has done: frame and sort arguments with the order given
    data,     \* job -> None or Some(rows after the sort stage, merge.py 106)
    result,   \* the collected frame (merge.py 116), None outside the write phase
    temp,     \* the temporary file merged.jl: None or Some(lines)
    out_file, \* the destination's file object: None or Some(lines written to it)
    pos,      \* the number of lines the cleaning loop has consumed
    status,   \* job -> "pending", "done", "skipped" or the exception raised
    io        \* job -> the file operations the call has made

vars == <<files, before, jobs, args, cur, pc, scanned, sorts, data, result, temp, out_file, pos, status, io>>

Paths == {"feed1", "feed2", "out1", "out2"}

\* a MergeConfig (config.py 22-37)
MergeConfig(schema, in_paths, out_path, key_col, latest_col, latest_min, sort_fields, sort_descending, fieldnames_include, fieldnames_exclude) ==
    [schema |-> schema, in_paths |-> in_paths, out_path |-> out_path, key_col |-> key_col,
     latest_col |-> latest_col, latest_min |-> latest_min,
     sort_fields |-> sort_fields, sort_descending |-> sort_descending,
     fieldnames_include |-> fieldnames_include,
     fieldnames_exclude |-> fieldnames_exclude]

Running == cur \in DOMAIN jobs /\ pc # "crashed"

Config == jobs[cur]

\* Conflict as it would be if the check came after the test of merge.py 58
ConflictAfterCollision(cfg) ==
    /\ ~IsNone(cfg.fieldnames_include) /\ ~IsNone(cfg.fieldnames_exclude)
    /\ ~(~args.overwrite /\ ~IsNone(files[cfg.out_path]))

\* merge.py 37-40
Conflict(cfg) == ~IsNone(cfg.fieldnames_include) /\ ~IsNone(cfg.fieldnames_exclude)

\* Collision as it would be with the "not" of "not overwrite" left out
CollisionInverted(cfg) == args.overwrite /\ ~IsNone(files[cfg.out_path])

\* merge.py 58
Collision(cfg) == ~args.overwrite /\ ~IsNone(files[cfg.out_path])

Readable(cfg) == \A i \in DOMAIN cfg.in_paths : ~IsNone(files[cfg.in_paths[i]])

\* merge_files returns: the loop of main (__main__.py 99-106) goes on
Return(outcome) ==
    /\ status' = [status EXCEPT ![cur] = outcome]
    /\ cur' = cur + 1
    /\ pc' = "start"
    /\ result' = None
    /\ temp' = None
    /\ out_file' = None
    /\ pos' = 0

\* merge_files raises: nothing in main catches it, the process ends; leaving
\* the with blocks closes the files and removes the temporary directory
Raise(error) ==
    /\ status' = [status EXCEPT ![cur] = error]
    /\ pc' = "crashed"
    /\ result' = None
    /\ temp' = None
    /\ out_file' = None
    /\ pos' = 0
    /\ UNCHANGED cur

\* the pair that marks a line whose end did not reach the file
CutMark == <<"<cut>", Null>>

\* the first bytes of a line: its first m pairs, the rest and the newline missing
Cut(line, m) == Append(SubSeq(line, 1, m), CutMark)

IsCut(line) == line # <<>> /\ line[Len(line)] = CutMark

RECURSIVE Bytes(_)
\* a measure of the length of a file that grows with every pair and every
\* line end written
Bytes(lines) ==
    IF lines = <<>> THEN 0
    ELSE (IF IsCut(Head(lines)) THEN Len(Head(lines)) ELSE Len(Head(lines)) + 2)
            + Bytes(Tail(lines))

\* what a file may hold when lines have been written through a buffer: the
\* buffer is flushed by size, so any leading part of the lines, ending at a
\* line end or inside a line
Flushed(lines) ==
    {SubSeq(lines, 1, k) : k \in 0..Len(lines)}
        \cup UNION {{Append(SubSeq(lines, 1, k - 1), Cut(lines[k], m)) :
                        m \in 0..Len(lines[k])} : k \in 1..Len(lines)}

\* merge.py 37-42
ConfigError ==
    /\ Running /\ pc = "start"
    /\ Conflict(Config)
    /\ Raise("ValueError")
    /\ UNCHANGED <<files, before, jobs, args, scanned, sorts, data, io>>

\* merge.py 58-60
SkipExisting ==
    /\ Running /\ pc = "start"
    /\ ~Conflict(Config)
    /\ Collision(Config)
    /\ Return("skipped")
    /\ UNCHANGED <<files, before, jobs, args, scanned, sorts, data, io>>

\* merge.py 78: the comparison of a column name with a datetime floor raises
\* before the plan is built any further; no file has been read or written
FloorTypeError ==
    /\ Running /\ pc = "start"
    /\ ~Conflict(Config)
    /\ ~Collision(Config)
    /\ FloorTypeMismatch(Config)
    /\ Raise("TypeError")
    /\ UNCHANGED <<files, before, jobs, args, scanned, sorts, data, io>>

\* merge.py 116: collect raises an exception of polars: the plan names a
\* column the schema does not declare (nothing has been read), or a
\* to_datetime of the plan meets a string that is no timestamp (the inputs
\* have been read); nothing is written
CollectError ==
    /\ Running /\ pc = "start"
    /\ ~Conflict(Config)
    /\ ~Collision(Config)
    /\ ~FloorTypeMismatch(Config)
    /\ \/ /\ MissingColumn(Config)
          /\ UNCHANGED io
       \/ /\ ~MissingColumn(Config)
          /\ Readable(Config)
          /\ \E scan \in ScanNdjson(files, Config.in_paths, Config.schema) :
                CollectFails(sorts, scan, Config)
          /\ io' = [io EXCEPT ![cur] = @ \cup {"read"}]
    /\ Raise("PolarsError")
    /\ UNCHANGED <<files, before, jobs, args, scanned, sorts, data>>

\* merge.py 62-118: the lazy plan is built and collected
Collect ==
    /\ Running /\ pc = "start"
    /\ ~Conflict(Config)
    /\ ~Collision(Config)
    /\ ~FloorTypeMismatch(Config)
    /\ ~MissingColumn(Config)
    /\ Readable(Config)
    /\ \E scan \in ScanNdjson(files, Config.in_paths, Config.schema) :
          \E m \in Merged(sorts, scan, Config) :
              /\ scanned' = [scanned EXCEPT ![cur] = Some(scan)]
              /\ sorts' = m.memo
              /\ data' = [data EXCEPT ![cur] = Some(m.rows)]
              /\ result' = Some(Select(m.rows, Projection(Config)))
    /\ io' = [io EXCEPT ![cur] = @ \cup {"read"}]
    /\ pc' = "collected"
    /\ UNCHANGED <<files, before, jobs, args, cur, temp, out_file, pos, status>>

\* merge.py 120-124
WriteDirect ==
    /\ Running /\ pc = "collected"
    /\ ~args.drop_empty /\ ~args.sort_keys
    /\ files' = [files EXCEPT ![Config.out_path] = Some(WriteNdjson(Get(result)))]
    /\ io' = [io EXCEPT ![cur] = @ \cup {"open"}]
    /\ Return("done")
    /\ UNCHANGED <<before, jobs, args, scanned, sorts, data>>

\* merge.py 126-130
WriteTemp ==
    /\ Running /\ pc = "collected"
    /\ args.drop_empty \/ args.sort_keys
    /\ temp' = Some(WriteNdjson(Get(result)))
    /\ result' = None
    /\ io' = [io EXCEPT ![cur] = @ \cup {"temp"}]
    /\ pc' = "temp"
    /\ UNCHANGED <<files, before, jobs, args, cur, scanned, sorts, data, out_file, pos, status>>

\* merge.py 133: out_path.open("w") creates or truncates the destination and
\* gives a buffered file object
OpenFiles ==
    /\ Running /\ pc = "temp"
    /\ files' = [files EXCEPT ![Config.out_path] = Some(<<>>)]
    /\ out_file' = Some(<<>>)
    /\ io' = [io EXCEPT ![cur] = @ \cup {"open"}]
    /\ pos' = 0
    /\ pc' = "clean"
    /\ UNCHANGED <<before, jobs, args, cur, scanned, sorts, data, result, temp, status>>

\* merge.py 144-149: one line of the temporary file is cleaned and written to
\* the file object
CleanLine ==
    /\ Running /\ pc = "clean"
    /\ pos < Len(Get(temp))
    /\ out_file' = Some(Append(Get(out_file),
                               CleanRow(Get(temp)[pos + 1], args.drop_empty, args.sort_keys)))
    /\ pos' = pos + 1
    /\ UNCHANGED <<files, before, jobs, args, cur, pc, scanned, sorts, data, result, temp, status, io>>

\* merge.py 148-149: a write fills the buffer of the file object, which sends
\* a further part of what was written to the destination
Flush ==
    /\ Running /\ pc = "clean"
    /\ \E part \in Flushed(Get(out_file)) :
          /\ Bytes(part) > Bytes(Get(files[Config.out_path]))
          /\ files' = [files EXCEPT ![Config.out_path] = Some(part)]
    /\ UNCHANGED <<before, jobs, args, cur, pc, scanned, sorts, data, result, temp, out_file, pos, status, io>>

\* merge.py 133, 144, 151: the loop ends, leaving the with block closes the
\* files (the rest of the buffer reaches the destination), the call returns
Finish ==
    /\ Running /\ pc = "clean"
    /\ pos = Len(Get(temp))
    /\ files' = [files EXCEPT ![Config.out_path] = out_file]
    /\ Return("done")
    /\ UNCHANGED <<before, jobs, args, scanned, sorts, data, io>>

\* an I/O error (unreadable input path, unwritable output path, failed write)
\* raised by scan_ndjson or collect (62, 116), write_ndjson (122, 129), open
\* (133), or by a write or the closing flush (148-149, 133).  The operation
\* that failed may or may not have been begun; a failed write to the
\* destination leaves there any leading part of the lines written.
IOError ==
    /\ Running
    /\ \/ /\ pc = "start" /\ ~Conflict(Config) /\ ~Collision(Config)
          /\ \E ops \in SUBSET {"read"} : io' = [io EXCEPT ![cur] = @ \cup ops]
          /\ UNCHANGED files
       \/ /\ pc = "collected" /\ (args.drop_empty \/ args.sort_keys)
          /\ \E ops \in SUBSET {"temp"} : io' = [io EXCEPT ![cur] = @ \cup ops]
          /\ UNCHANGED files
       \/ /\ pc = "collected" /\ ~args.drop_empty /\ ~args.sort_keys
          /\ UNCHANGED <<files, io>>
       \/ /\ pc = "collected" /\ ~args.drop_empty /\ ~args.sort_keys
          /\ \E part \in Flushed(WriteNdjson(Get(result))) :
                files' = [files EXCEPT ![Config.out_path] = Some(part)]
          /\ io' = [io EXCEPT ![cur] = @ \cup {"open"}]
       \/ /\ pc = "temp"
          /\ UNCHANGED <<files, io>>
       \/ /\ pc = "clean"
          /\ \E part \in Flushed(Get(out_file)) :
                /\ Bytes(part) >= Bytes(Get(files[Config.out_path]))
                /\ files' = [files EXCEPT ![Config.out_path] = Some(part)]
          /\ UNCHANGED io
    /\ Raise("OSError")
    /\ UNCHANGED <<before, jobs, args, scanned, sorts, data>>

Next ==
    \/ ConfigError
    \/ SkipExisting
    \/ FloorTypeError
    \/ CollectError
    \/ Collect
    \/ WriteDirect
    \/ WriteTemp
    \/ OpenFiles
    \/ CleanLine
    \/ Flush
    \/ Finish
    \/ IOError

(***************************************************************************)
(* Initial states: the files on disk, the configurations and the flags     *)
(* main was started with.                                                  *)
(***************************************************************************)
Start(fs, js, a) ==
    /\ files = fs
    /\ before = fs
    /\ jobs = js
    /\ args = a
    /\ cur = 1
    /\ pc = "start"
    /\ scanned = [j \in DOMAIN js |-> None]
    /\ sorts = {}
    /\ data = [j \in DOMAIN js |-> None]
    /\ result = None
    /\ temp = None
    /\ out_file = None
    /\ pos = 0
    /\ status = [j \in DOMAIN js |-> "pending"]
    /\ io = [j \in DOMAIN js |-> {}]

\* a line of an input file: an item with some of the schema's fields
Item(id, ts, val) == <<<<"val", val>>, <<"id", id>>, <<"ts", ts>>>>

\* a line of a GameItem feed with all the fields of the schema
GameLine(val, id, pub, ts) == <<<<"val", val>>, <<"id", id>>, <<"pub", pub>>, <<"ts", ts>>>>

\* a line of a UserItem feed
UserLine(user, val, pub, ts) == <<<<"user", user>>, <<"val", val>>, <<"pub", pub>>, <<"ts", ts>>>>

\* a line of a RatingItem feed
RatingLine(id, user, val, pub, ts) ==
    <<<<"id", id>>, <<"user", user>>, <<"val", val>>, <<"pub", pub>>, <<"ts", ts>>>>

SeqsUpTo(S, n) == UNION {[1..k -> S] : k \in 0..n}

Disk(feed1, feed2, out1, out2) ==
    [p \in Paths |-> CASE p = "feed1" -> feed1 [] p = "feed2" -> feed2
                       [] p = "out1" -> out1 [] OTHER -> out2]

Args == [overwrite : BOOLEAN, drop_empty : BOOLEAN, sort_keys : BOOLEAN]

\* what a destination may hold before the run
OldFile == <<Item(JStr("b"), JStr(T1), JStr("x"))>>

\* the schema of the callers' configurations: GAME_ITEM_SCHEMA with a String
\* payload (name) and a String id (dbpedia_id)
CallSchema == GameItemSchema(DString, DString)

\* a MergeConfig a caller builds itself: the rows sorted by key
CallConfig(in_paths, out_path, key_col, latest_col, latest_min, include, exclude) ==
    MergeConfig(CallSchema, in_paths, out_path, key_col, latest_col, latest_min,
                Some(key_col), FALSE, include, exclude)

(* Calls of merge_files by a caller that builds the configurations itself  *)
(* and runs them one after the other as main does: any flags, any pair of  *)
(* projection lists; as recency the parsed timestamp, the timestamp's name *)
(* with a datetime floor, or the parsed payload, which is no timestamp.    *)
CallItems ==
    {Item(JStr("a"), JStr(T1), JStr("x")), Item(JStr("a"), JStr(T2), Null)}

CallProjections ==
    {[inc |-> None, exc |-> Some(<<"ts">>)],
     [inc |-> Some(<<"id", "val">>), exc |-> None],
     [inc |-> Some(<<"id", "val">>), exc |-> Some(<<"ts">>)]}

CallRecency ==
    {[col |-> <<ToDatetime("ts")>>, min |-> None],
     [col |-> <<ColName("ts")>>, min |-> Some(DatetimeFloor(T2))],
     [col |-> <<ToDatetime("val")>>, min |-> None]}

InitCalls ==
    \E inp \in SeqsUpTo(CallItems, MaxRecs), a \in Args,
       old1, old2 \in {None, Some(OldFile)}, p1, p2 \in CallProjections,
       rec \in CallRecency :
        /\ rec.col # <<ToDatetime("ts")>> => p1.exc = None
        /\ Start(Disk(Some(inp), Some(inp), old1, old2),
                 <<CallConfig(<<"feed1">>, "out1", <<ColName("id")>>, rec.col, rec.min,
                              p1.inc, p1.exc),
                   CallConfig(<<"feed2">>, "out2", <<ColName("id")>>, <<ToDatetime("ts")>>, None,
                              p2.inc, p2.exc)>>,
                 a)

(***************************************************************************)
(* The configurations of config.py.                                        *)
(***************************************************************************)
\* dict.setdefault on the keyword arguments
SetDefault(kwargs, k, v) == IF k \in DOMAIN kwargs THEN kwargs ELSE kwargs @@ (k :> v)

\* dict.get with a default
KwGet(kwargs, k, v) == IF k \in DOMAIN kwargs THEN kwargs[k] ELSE v

\* "not x" for an optional argument x whose empty value is empty: None, ""
\* and [] are falsy
Falsy(x, empty) == IsNone(x) \/ Get(x) = empty

\* a constructor of config.py raised the exception e
Raised(e) == [raised |-> e]

IsRaised(c) == DOMAIN c = {"raised"}

\* the jobs of all_sites_config in the order it yields them
SiteItems ==
    <<<<"bgg_hotness", "GameItem">>, <<"dbpedia", "GameItem">>, <<"luding", "GameItem">>,
      <<"spielen", "GameItem">>, <<"wikidata", "GameItem">>, <<"bgg", "GameItem">>,
      <<"bgg", "UserItem">>, <<"bgg", "RatingItem">>>>

SiteIndex(site, item) == CHOOSE i \in DOMAIN SiteItems : SiteItems[i] = <<site, item>>

\* FEEDS_DIR / site / item (config.py 62): the lines of the files of the
\* directory are held as one file
FeedsPath(site, item) ==
    <<"feeds/bgg_hotness/GameItem", "feeds/dbpedia/GameItem", "feeds/luding/GameItem",
      "feeds/spielen/GameItem", "feeds/wikidata/GameItem", "feeds/bgg/GameItem",
      "feeds/bgg/UserItem", "feeds/bgg/RatingItem">>[SiteIndex(site, item)]

\* DATA_DIR / "scraped" / f"{site}_{item}.jl" (config.py 74-76)
ScrapedPath(site, item) ==
    <<"scraped/bgg_hotness_GameItem.jl", "scraped/dbpedia_GameItem.jl",
      "scraped/luding_GameItem.jl", "scraped/spielen_GameItem.jl",
      "scraped/wikidata_GameItem.jl", "scraped/bgg_GameItem.jl",
      "scraped/bgg_UserItem.jl", "scraped/bgg_RatingItem.jl">>[SiteIndex(site, item)]

\* FEEDS_DIR / site / item / f"{now_str}-merged.jl" (config.py 84-86)
MergedPath(site, item) ==
    <<"feeds/bgg_hotness/GameItem/now-merged.jl", "feeds/dbpedia/GameItem/now-merged.jl",
      "feeds/luding/GameItem/now-merged.jl", "feeds/spielen/GameItem/now-merged.jl",
      "feeds/wikidata/GameItem/now-merged.jl", "feeds/bgg/GameItem/now-merged.jl",
      "feeds/bgg/UserItem/now-merged.jl", "feeds/bgg/RatingItem/now-merged.jl">>[SiteIndex(site, item)]

\* now - timedelta(days=latest_min_days) (config.py 71): the run is one day
\* after T2
DaysAgo(days) == IF days = 1 THEN T2 ELSE T1

\* ITEM_TYPE_SCHEMA.get(item) (config.py 57, schemas.py 170), of which the
\* model keeps the columns the configuration of the site names: as "id" the
\* column f"{site}_id" (bgg_id and luding_id are Int64, the others String), as
\* "val" the column rank (Int64) for bgg_hotness and name (String) otherwise
ItemTypeSchema(site, item) ==
    CASE item = "GameItem" ->
            Some(GameItemSchema(IF site = "bgg_hotness" THEN DInt64 ELSE DString,
                                IF site \in {"bgg", "bgg_hotness", "luding"}
                                THEN DInt64 ELSE DString))
      [] item = "UserItem" -> Some(UserItemSchema)
      [] item = "RatingItem" -> Some(RatingItemSchema)
      [] OTHER -> None

\* f"{site}_id" (config.py 64): "id" is the model's name of the column
\* {site}_id of the schema; GAME_ITEM_SCHEMA has no bgg_hotness_id
SiteId(site) == IF site = "bgg_hotness" THEN "bgg_hotness_id" ELSE "id"

\* MergeConfig.with_defaults (config.py 40-88); in_paths, out_path and
\* latest_min_days are None or Some(value)
WithDefaults(site, item, in_paths, out_path, clean_results, latest_min_days, kwargs) ==
    LET schema == ItemTypeSchema(site, item)
        key_col == KwGet(kwargs, "key_col", <<ColName(SiteId(site))>>)
        kw1 == IF ~IsNone(latest_min_days) /\ Get(latest_min_days) > 0
               THEN SetDefault(kwargs, "latest_min",
                               Some(DatetimeFloor(DaysAgo(Get(latest_min_days)))))
               ELSE kwargs
        kw2 == IF clean_results
               THEN SetDefault(SetDefault(kw1, "sort_fields", Some(key_col)),
                               "fieldnames_exclude", Some(<<"pub", "ts">>))
               ELSE kw1
    IN  IF IsNone(schema) THEN Raised("ValueError")
        ELSE MergeConfig(Get(schema),
                         IF Falsy(in_paths, <<>>) THEN <<FeedsPath(site, item)>>
                         ELSE Get(in_paths),
                         CASE ~Falsy(out_path, "") -> Get(out_path)
                           [] clean_results -> ScrapedPath(site, item)
                           [] OTHER -> MergedPath(site, item),
                         key_col, KwGet(kwargs, "latest_col", <<ToDatetime("ts")>>),
                         KwGet(kw2, "latest_min", None),
                         KwGet(kw2, "sort_fields", None), KwGet(kw2, "sort_descending", FALSE),
                         KwGet(kw2, "fieldnames_include", None),
                         KwGet(kw2, "fieldnames_exclude", None))

\* MergeConfig.bgg_config (config.py 110-150)
BggConfig(item, in_paths, out_path, clean_results, latest_min_days) ==
    LET exclude == IF clean_results THEN ("fieldnames_exclude" :> Some(<<"pub", "ts">>)) ELSE <<>>
    IN  CASE item = "GameItem" ->
                WithDefaults("bgg", item, in_paths, out_path, clean_results, latest_min_days, <<>>)
          [] item = "UserItem" ->
                WithDefaults("bgg", item, in_paths, out_path, clean_results, latest_min_days,
                             ("key_col" :> <<ToLowercase("user")>>) @@ exclude)
          [] item = "RatingItem" ->
                WithDefaults("bgg", item, in_paths, out_path, clean_results, latest_min_days,
                             ("key_col" :> <<ToLowercase("user"), ColName("id")>>) @@ exclude)
          [] OTHER -> Raised("ValueError")

\* MergeConfig.bgg_hotness_config (config.py 153-188)
BggHotnessConfig(in_paths, out_path, clean_results, latest_min_days) ==
    LET kw1 == ("key_col" :> <<ToDatetime("pub"), ColName("id")>>)
                  @@ ("sort_fields" :> Some(<<ToDatetime("pub"), ColName("val")>>))
                  @@ ("fieldnames_exclude" :> None)
        kw2 == IF clean_results
               THEN kw1 @@ ("fieldnames_include" :> Some(<<"pub", "val", "id">>))
               ELSE kw1
    IN  WithDefaults("bgg_hotness", "GameItem", in_paths, out_path, clean_results,
                     latest_min_days, kw2)

\* MergeConfig.site_config (config.py 91-107)
SiteConfig(site, item, in_paths, out_path, clean_results, latest_min_days) ==
    IF site = "bgg"
    THEN BggConfig(item, in_paths, out_path, clean_results, latest_min_days)
    ELSE IF item # "GameItem"
    THEN Raised("ValueError")
    ELSE IF site = "bgg_hotness"
    THEN BggHotnessConfig(in_paths, out_path, clean_results, latest_min_days)
    ELSE WithDefaults(site, "GameItem", in_paths, out_path, clean_results, latest_min_days, <<>>)

\* the default of sites in all_sites_config (config.py 197-204)
AllSites == <<"bgg_hotness", "dbpedia", "luding", "spielen", "wikidata", "bgg">>

RECURSIVE YieldSites(_, _, _)
\* the loop of all_sites_config (config.py 205-211) over sites
YieldSites(sites, clean_results, latest_min_days) ==
    IF sites = <<>> THEN <<>>
    ELSE (IF Head(sites) = "bgg"
          THEN <<SiteConfig("bgg", "GameItem", None, None, clean_results, latest_min_days),
                 SiteConfig("bgg", "UserItem", None, None, clean_results, latest_min_days),
                 SiteConfig("bgg", "RatingItem", None, None, clean_results, latest_min_days)>>
          ELSE <<SiteConfig(Head(sites), "GameItem", None, None, clean_results, latest_min_days)>>)
            \o YieldSites(Tail(sites), clean_results, latest_min_days)

\* MergeConfig.all_sites_config (config.py 191-211), as the tuple main builds;
\* sites is the list given, <<>> for None and for the empty list, which both
\* get the default (sites or [...])
AllSitesConfig(sites, clean_results, latest_min_days) ==
    YieldSites(IF sites = <<>> THEN AllSites ELSE sites, clean_results, latest_min_days)

(* main (__main__.py 71-106): the site (all, or one site with an item type *)
(* and maybe -o), the flags -c, -m and -W, the feeds of the sites and the  *)
(* destinations left by an earlier run.                                    *)
HotnessItems ==
    {GameLine(JInt(2), JInt(7), JStr(T1), JStr(T1)),
     GameLine(JInt(1), JInt(8), JStr(T1), JStr(T2))}

\* what the feeds of the eight jobs hold, the hotness feed first
MainFeeds(hot) ==
    <<hot,
      <<GameLine(JStr("x"), JStr("a"), Null, JStr(T2))>>,
      <<>>,
      <<GameLine(JStr("x"), JStr("b"), JStr(T1), JStr(T1))>>,
      <<GameLine(Null, Null, Null, Null)>>,
      <<GameLine(JStr("x"), JInt(7), Null, JStr(T1)),
        GameLine(Null, JInt(7), Null, JStr(T2))>>,
      <<UserLine(JStr("A"), Null, Null, JStr(T2)),
        UserLine(JStr("a"), JStr("x"), Null, JStr(T2))>>,
      <<RatingLine(JInt(7), JStr("A"), JInt(1), Null, JStr(T1)),
        RatingLine(JInt(7), JStr("a"), JInt(0), Null, JStr(T2))>>>>

\* the feed directories, in the order of SiteItems
FeedPaths == [i \in DOMAIN SiteItems |-> FeedsPath(SiteItems[i][1], SiteItems[i][2])]

\* the values of -m: absent, 0 (no floor) and 1
MinDays == {None, Some(0), Some(1)}

\* the tuples main builds for site "all" (__main__.py 80-86)
MainBatches == {AllSitesConfig(None, c, m) : c \in BOOLEAN, m \in MinDays}

\* the feeds and, of the destinations of js, those a former run left; a
\* destination named after the time of the run (no -c, no -o) does not exist yet
MainDisk(js, feeds, old1, old) ==
    [p \in Range(FeedPaths) \cup {js[j].out_path : j \in DOMAIN js} |->
        CASE p \in Range(FeedPaths) -> Some(feeds[CHOOSE i \in DOMAIN FeedPaths : FeedPaths[i] = p])
          [] js # <<>> /\ p = js[1].out_path -> old1
          [] OTHER -> old]

\* main ends with the exception site_config raised: no call of merge_files
Aborted(fs, a) ==
    /\ files = fs
    /\ before = fs
    /\ jobs = <<>>
    /\ args = a
    /\ cur = 1
    /\ pc = "crashed"
    /\ scanned = <<>>
    /\ sorts = {}
    /\ data = <<>>
    /\ result = None
    /\ temp = None
    /\ out_file = None
    /\ pos = 0
    /\ status = <<>>
    /\ io = <<>>

\* the site arguments of main: all, or a site with an item type and maybe -i
\* (the feed of another job) and -o (a path, or the empty string)
MainSites ==
    {[site |-> "all", item |-> "GameItem", in_paths |-> None, out_path |-> None]}
        \cup [site : {"dbpedia", "bgg_hotness", "bgg"},
              item : {"GameItem", "RatingItem", "UserItem"},
              in_paths : {None, Some(<<"feeds/spielen/GameItem">>)},
              out_path : {None, Some("out1"), Some("")}]

InitMain ==
    \E site \in MainSites, clean_results \in BOOLEAN, latest_min_days \in MinDays,
       overwrite \in BOOLEAN, hot \in SeqsUpTo(HotnessItems, MaxRecs),
       old1, old \in {None, Some(OldFile)} :
        LET one == SiteConfig(site.site, site.item, site.in_paths, site.out_path,
                              clean_results, latest_min_days)
            js == IF site.site = "all"
                  THEN AllSitesConfig(None, clean_results, latest_min_days)
                  ELSE IF IsRaised(one) THEN <<>> ELSE <<one>>
            a == [overwrite |-> overwrite, drop_empty |-> TRUE, sort_keys |-> clean_results]
        IN  /\ (~clean_results /\ Falsy(site.out_path, "")) => (old1 = None /\ old = None)
            /\ site.site # "all" => (old = None /\ latest_min_days # Some(0))
            /\ js = <<>> => (old1 = None /\ hot = <<>>)
            /\ IF js = <<>>
               THEN Aborted(MainDisk(js, MainFeeds(hot), old1, old), a)
               ELSE Start(MainDisk(js, MainFeeds(hot), old1, old), js, a)

(* A caller that calls with_defaults for bgg_hotness itself and gives no    *)
(* key_col, then merges as main does.                                      *)
InitDirect ==
    \E clean_results \in BOOLEAN, overwrite \in BOOLEAN,
       hot \in SeqsUpTo(HotnessItems, MaxRecs) :
        LET js == <<WithDefaults("bgg_hotness", "GameItem", None, None, clean_results,
                                 None, <<>>)>>
        IN  Start(MainDisk(js, MainFeeds(hot), None, None), js,
                  [overwrite |-> overwrite, drop_empty |-> TRUE, sort_keys |-> clean_results])

Spec == (InitMain \/ InitCalls \/ InitDirect) /\ [][Next]_vars

(* The same merge run twice over one feed, with the default flags of       *)
(* merge_files: keys that differ in case only, timestamps on both sides of *)
(* the floor, bare-name and Expr columns.                                  *)
DedupItems ==
    {Item(JStr("a"), JStr(T1), JStr("x")), Item(JStr("a"), JStr(T2), JStr("x")),
     Item(JStr("A"), JStr(T2), JStr("x")), Item(JStr("a"), Null, JStr("x")),
     Item(Null, JStr(T1), JStr("x")), Item(Null, Null, JStr("x"))}

DedupRecency ==
    {[col |-> <<ToDatetime("ts")>>, min |-> None],
     [col |-> <<ToDatetime("ts")>>, min |-> Some(DatetimeFloor(T2))],
     [col |-> <<ColName("ts")>>, min |-> None],
     [col |-> <<ColName("ts")>>, min |-> Some(StrFloor(T2))],
     [col |-> <<ColName("ts")>>, min |-> Some(DatetimeFloor(T2))]}

InitDedup ==
    \E inp \in SeqsUpTo(DedupItems, MaxRecs), rec \in DedupRecency,
       key \in {<<ColName("id")>>, <<ToLowercase("id")>>},
       sort \in {None, Some(<<ToLowercase("id")>>)} :
        /\ sort # None => rec = [col |-> <<ToDatetime("ts")>>, min |-> None]
        /\ Start(Disk(Some(inp), None, None, None),
                 <<MergeConfig(CallSchema, <<"feed1">>, "out1", key, rec.col, rec.min, sort, FALSE,
                               None, None),
                   MergeConfig(CallSchema, <<"feed1">>, "out2", key, rec.col, rec.min, sort, FALSE,
                               None, None)>>,
                 [overwrite |-> FALSE, drop_empty |-> FALSE, sort_keys |-> FALSE])

SpecDedup == (InitCalls \/ InitDedup) /\ [][Next]_vars

(* A merge, then a merge of its output with no recency floor.              *)
IdemItems ==
    {Item(Null, JStr(T2), JStr("x")),
     Item(JStr(""), JStr(T2), JStr("x")), Item(JStr("a"), Null, JStr("x")),
     Item(JStr("a"), JStr(T2), JStr("x")), Item(JStr("A"), JStr(T2), JStr("x"))}

IdemProjections ==
    {[inc |-> None, exc |-> None],
     [inc |-> None, exc |-> Some(<<"ts">>)],
     [inc |-> None, exc |-> Some(<<"id">>)],
     [inc |-> Some(<<"ts", "id">>), exc |-> None],
     [inc |-> Some(<<"val", "ts">>), exc |-> None]}

InitIdem ==
    \E inp \in SeqsUpTo(IdemItems, MaxRecs), drop \in BOOLEAN, p \in IdemProjections,
       key \in {<<ColName("id")>>, <<ToLowercase("id")>>},
       min \in {None, Some(DatetimeFloor(T2))} :
        /\ min # None => (p.inc = None /\ p.exc = None)
        /\ Start(Disk(Some(inp), None, None, None),
                 <<MergeConfig(CallSchema, <<"feed1">>, "out1", key, <<ToDatetime("ts")>>, min,
                               Some(key), FALSE, p.inc, p.exc),
                   MergeConfig(CallSchema, <<"out1">>, "out2", key, <<ToDatetime("ts")>>, None,
                               Some(key), FALSE, p.inc, p.exc)>>,
                 [overwrite |-> FALSE, drop_empty |-> drop, sort_keys |-> drop])

SpecIdem == (InitCalls \/ InitIdem) /\ [][Next]_vars

(* One merge of one item whose payload ranges over the dtypes of the       *)
(* payload columns (name, rank, cooperative, image_url, image_file), with  *)
(* values of the dtype and values of another type.                         *)
ValCases ==
    [t : {DString}, v : {Null, JStr(""), JStr("x"), JInt(1)}]
        \cup [t : {DInt64}, v : {JInt(0), JInt(1), JStr("x")}]
        \cup [t : {DBoolean}, v : {JBool(FALSE), JBool(TRUE)}]
        \cup [t : {DList(DString)}, v : {JList(<<>>), JList(<<Null>>), JList(<<JStr("")>>)}]
        \cup [t : {ImageFile},
              v : {JList(<<>>),
                   JList(<<JStruct(<<<<"url", JStr("")>>, <<"path", JStr("x")>>>>)>>)}]

\* the recency of the one merge: the parsed timestamp, or the parsed timestamp
\* with a floor and then the parsed payload (a String column)
CleanRecency ==
    {[col |-> <<ToDatetime("ts")>>, min |-> None],
     [col |-> <<ToDatetime("ts"), ToDatetime("val")>>, min |-> Some(DatetimeFloor(T1))]}

InitClean ==
    \E val \in ValCases, id \in {Null, JStr(""), JStr("a")}, ts \in {Null, JStr(T1)},
       a \in Args, p \in {[inc |-> None, exc |-> None], [inc |-> None, exc |-> Some(<<"ts">>)]},
       rec \in CleanRecency :
        /\ Len(rec.col) > 1 => (val.t = DString /\ p.exc = None)
        /\ Start(Disk(Some(<<Item(id, ts, val.v)>>), None, None, None),
                 <<MergeConfig(GameItemSchema(val.t, DString), <<"feed1">>, "out1",
                               <<ColName("id")>>, rec.col, rec.min,
                               Some(<<ColName("id")>>), FALSE, p.inc, p.exc)>>,
                 a)

SpecClean == (InitCalls \/ InitClean) /\ [][Next]_vars

(***************************************************************************)
(* Properties.                                                             *)
(***************************************************************************)
JobIds == DOMAIN jobs

\* the rows job j reads that pass its recency filter
Candidates(j) == RecencyFilter(Get(scanned[j]), jobs[j])

KeyOf(j, row) == EvalAll(jobs[j].key_col, row)

RecencyOf(j, row) == Eval(jobs[j].latest_col[1], row)

\* the lines of job j's destination
Written(j) == Get(files[jobs[j].out_path])

Collected(j) == ~IsNone(data[j])

\* C1: a completed merge writes as many records as there are distinct keys
\* (null being a key value) among the rows that passed the recency filter,
\* and no two records it writes share a key.
C1_OneRecordPerKey ==
    \A j \in JobIds :
        status[j] = "done" =>
            LET cand == Candidates(j)
                rows == Get(data[j])
            IN  /\ Len(Written(j)) = Cardinality({KeyOf(j, cand[i]) : i \in DOMAIN cand})
                /\ Len(Written(j)) = Len(rows)
                /\ \A a, b \in DOMAIN rows :
                      a # b => KeyOf(j, rows[a]) # KeyOf(j, rows[b])

\* two candidates, both with the null key: one record is written
C1_Witness ==
    \E j \in JobIds :
        /\ status[j] = "done"
        /\ Len(Candidates(j)) = 2
        /\ Len(Written(j)) = 1
        /\ \A i \in DOMAIN Candidates(j) : KeyOf(j, Candidates(j)[i]) = <<Null>>

\* recency x is at least recency y in the descending order with nulls last
RecencyGeq(x, y) == IsNull(y) \/ (~IsNull(x) /\ StrRank(x[2]) >= StrRank(y[2]))

\* C2: the row kept for a key is at least as recent as every candidate with
\* that key, and has a null recency only if all of them have.
C2_KeepsLatest ==
    \A j \in JobIds :
        Collected(j) =>
            LET cand == Candidates(j)
                rows == Get(data[j])
            IN  \A k \in DOMAIN rows, c \in DOMAIN cand :
                    KeyOf(j, cand[c]) = KeyOf(j, rows[k]) =>
                        /\ RecencyGeq(RecencyOf(j, rows[k]), RecencyOf(j, cand[c]))
                        /\ IsNull(RecencyOf(j, rows[k])) => IsNull(RecencyOf(j, cand[c]))

\* a key with an older and a newer candidate, the older one first in the feed
C2_Witness ==
    \E j \in JobIds :
        /\ status[j] = "done"
        /\ Len(Candidates(j)) = 2
        /\ Len(Get(data[j])) = 1
        /\ RecencyOf(j, Candidates(j)[1]) # RecencyOf(j, Candidates(j)[2])
        /\ Get(data[j])[1] = Candidates(j)[2]

\* C3: with a recency floor set, every row that reaches the output has a
\* primary recency value that is not null and not below the floor.
C3_FloorRespected ==
    \A j \in JobIds :
        (status[j] = "done" /\ ~IsNone(jobs[j].latest_min)) =>
            \A k \in DOMAIN Get(data[j]) :
                LET v == RecencyOf(j, Get(data[j])[k])
                IN  ~IsNull(v) /\ StrRank(v[2]) >= StrRank(Get(jobs[j].latest_min).v)

\* two jobs are the same merge: they differ in the destination only
SameMerge(i, j) ==
    [jobs[i] EXCEPT !.out_path = "out"] = [jobs[j] EXCEPT !.out_path = "out"]

BothLists(cfg) == cfg.fieldnames_include # None /\ cfg.fieldnames_exclude # None

\* C4: a configuration with both an include-list and an exclude-list makes
\* merge_files raise before it reads an input, creates the temporary file or
\* touches the destination, whatever overwrite is and whether or not the
\* destination exists.
C4_ConflictRaisesFirst ==
    \A j \in JobIds :
        BothLists(jobs[j]) =>
            /\ status[j] \in {"pending", "ValueError"}
            /\ io[j] = {}
            /\ files[jobs[j].out_path] = before[jobs[j].out_path]
            /\ cur = j => (pc \in {"start", "crashed"} /\ IsNone(temp))

\* the call raised although the destination existed and overwrite was off
C4_Witness ==
    \E j \in JobIds :
        /\ BothLists(jobs[j])
        /\ status[j] = "ValueError"
        /\ ~args.overwrite
        /\ ~IsNone(before[jobs[j].out_path])

\* C5: with a valid configuration, an existing destination and overwrite
\* off, merge_files returns without raising, reads nothing, creates no
\* temporary file and leaves the destination as it was; the loop goes on.
C5_SkipsExisting ==
    \A j \in JobIds :
        (~BothLists(jobs[j]) /\ ~args.overwrite /\ before[jobs[j].out_path] # None) =>
            /\ status[j] \in {"pending", "skipped"}
            /\ io[j] = {}
            /\ files[jobs[j].out_path] = before[jobs[j].out_path]
            /\ cur = j => (pc = "start" /\ IsNone(temp))
            /\ status[j] = "skipped" => cur > j

\* a batch of main: the first job was skipped, its destination is as it was,
\* and the second job ran to its end
C5_Witness ==
    /\ jobs \in MainBatches
    /\ status[1] = "skipped"
    /\ status[2] = "done"
    /\ files[jobs[1].out_path] = Some(OldFile)

\* C6: when a job of a batch of main (site "all") fails, the other jobs of
\* the batch are still executed.
C6_SiblingsStillRun ==
    (jobs \in MainBatches /\ pc = "crashed") =>
        \A j \in JobIds \ {cur} : status[j] # "pending"

\* the lines a complete run of job j leaves at its destination
FullOutput(j) ==
    LET lines == WriteNdjson(Select(Get(data[j]), Projection(jobs[j])))
    IN  [i \in DOMAIN lines |-> CleanRow(lines[i], args.drop_empty, args.sort_keys)]

\* C7: a job that failed leaves at its destination either what was there
\* before the run or the complete result of the run.
C7_NoPartialOutput ==
    \A j \in JobIds :
        status[j] \in {"ValueError", "TypeError", "PolarsError", "OSError"} =>
            \/ files[jobs[j].out_path] = before[jobs[j].out_path]
            \/ Collected(j) /\ files[jobs[j].out_path] = Some(FullOutput(j))

\* the values the claim lists as empty
ListedEmpty(v) == v \in {Null, JStr(""), JList(<<>>), JBool(FALSE), JInt(0)}

RECURSIVE Json(_)
\* a value as JSON reads it: the members of an object are a set, whatever
\* the order they are written in
Json(v) ==
    CASE v[1] = "struct" -> <<"struct", {<<v[2][n][1], Json(v[2][n][2])>> : n \in DOMAIN v[2]}>>
      [] v[1] = "list" -> <<"list", [n \in DOMAIN v[2] |-> Json(v[2][n])]>>
      [] OTHER -> v

\* the fields of a line, each value as JSON reads it
Fields(line) == {<<line[n][1], Json(line[n][2])>> : n \in DOMAIN line}

\* the records job j has written: the lines of its destination once it is
\* done, the lines given to the file object while it is cleaning
WrittenRecords(j) ==
    CASE status[j] = "done" -> Written(j)
      [] cur = j /\ pc = "clean" -> Get(out_file)
      [] OTHER -> <<>>

\* C8: with drop_empty, no field of a written record has a null, "", [],
\* false or zero value, and every field of the collected record whose value
\* is none of these, nor an empty structure, is written with that value
\* (the same JSON value; identical, member order included, when sort_keys
\* is off); nothing else is written.
C8_DropEmpty ==
    \A j \in JobIds :
        (args.drop_empty /\ Collected(j)) =>
            LET src == WriteNdjson(Select(Get(data[j]), Projection(jobs[j])))
                out == WrittenRecords(j)
            IN  \A i \in DOMAIN out :
                    /\ \A n \in DOMAIN out[i] :
                          /\ ~ListedEmpty(out[i][n][2])
                          /\ <<out[i][n][1], Json(out[i][n][2])>> \in Fields(src[i])
                          /\ ~args.sort_keys => out[i][n] \in Range(src[i])
                    /\ \A n \in DOMAIN src[i] :
                          (~ListedEmpty(src[i][n][2]) /\ src[i][n][2] # JStruct(<<>>))
                              => <<src[i][n][1], Json(src[i][n][2])>> \in Fields(out[i])

\* a record with a null timestamp and a list holding a null: the first is
\* dropped, the second written
C8_Witness ==
    \E j \in JobIds :
        /\ args.drop_empty /\ status[j] = "done"
        /\ Len(Written(j)) = 1
        /\ <<"val", JList(<<Null>>)>> \in Range(Written(j)[1])
        /\ Get(data[j])[1]["ts"] = Null
        /\ \A n \in DOMAIN Written(j)[1] : Written(j)[1][n][1] # "ts"

\* job j merges the output of job i with no recency floor and otherwise the
\* configuration of job i
Remerge(i, j) ==
    /\ jobs[j].in_paths = <<jobs[i].out_path>>
    /\ IsNone(jobs[j].latest_min)
    /\ [jobs[i] EXCEPT !.in_paths = <<>>, !.out_path = "", !.latest_min = None]
         = [jobs[j] EXCEPT !.in_paths = <<>>, !.out_path = "", !.latest_min = None]

\* the records of a file, each as its set of fields with their values
Records(lines) == {Range(lines[n]) : n \in DOMAIN lines}

SameRecords(a, b) == Len(a) = Len(b) /\ Records(a) = Records(b)

\* C9 as claimed: merging the output of a merge again gives the same records,
\* whatever projection and drop_empty removed from the first output.
C9_Idempotent ==
    \A i, j \in JobIds :
        (Remerge(i, j) /\ status[i] = "done" /\ status[j] = "done") =>
            SameRecords(Written(i), Written(j))

\* every record job i wrote still carries each key field that is not null
KeysWritten(i) ==
    \A n \in DOMAIN Written(i), k \in DOMAIN jobs[i].key_col :
        LET c == jobs[i].key_col[k].col
        IN  \/ IsNull(Get(data[i])[n][c])
            \/ \E m \in DOMAIN Written(i)[n] : Written(i)[n][m][1] = c

\* C9 amended: merging the output of a merge again gives the same records
\* provided no non-null key field was removed from the first output (by
\* projection, or by drop_empty as an empty value).
C9_IdempotentIfKeysWritten ==
    \A i, j \in JobIds :
        (Remerge(i, j) /\ status[i] = "done" /\ status[j] = "done" /\ KeysWritten(i)) =>
            SameRecords(Written(i), Written(j))

\* two records re-merged after the projection removed their recency field
C9_Witness ==
    \E i, j \in JobIds :
        /\ Remerge(i, j) /\ status[i] = "done" /\ status[j] = "done"
        /\ KeysWritten(i)
        /\ Len(Written(i)) = 2
        /\ jobs[i].fieldnames_exclude = Some(<<"ts">>)
        /\ args.drop_empty

\* the field names of a line, in the order they are written
Names(line) == [n \in DOMAIN line |-> line[n][1]]

\* the field orders job j shows: the columns of the frame it collected and
\* the lines it wrote directly (no cleaning pass between frame and file)
FieldOrders(j) ==
    (IF cur = j /\ result # None THEN {Get(result).cols} ELSE {})
        \cup (IF status[j] = "done" /\ ~args.drop_empty /\ ~args.sort_keys
              THEN {Names(Written(j)[n]) : n \in DOMAIN Written(j)} ELSE {})

\* job j is configured with an include-list alone
IncludeOnly(j) == jobs[j].fieldnames_include # None /\ jobs[j].fieldnames_exclude = None

\* job j is configured with an exclude-list alone
ExcludeOnly(j) == jobs[j].fieldnames_include = None /\ jobs[j].fieldnames_exclude # None

\* the fields the projection of job j is to retain
Retained(j) ==
    IF IncludeOnly(j) THEN Range(Get(jobs[j].fieldnames_include))
    ELSE Range(Columns(jobs[j].schema)) \ Range(Get(jobs[j].fieldnames_exclude))

\* the place of field f in the declaration order of job j's schema
SchemaIndex(j, f) ==
    CHOOSE i \in DOMAIN jobs[j].schema : jobs[j].schema[i][1] = f

InSchemaOrder(j, names) ==
    \A a, b \in DOMAIN names : a < b => SchemaIndex(j, names[a]) < SchemaIndex(j, names[b])

\* C11 as claimed: with an include-list or an exclude-list the records hold
\* exactly the retained fields, in schema declaration order.
C11_SchemaOrder ==
    \A j \in JobIds :
        (IncludeOnly(j) \/ ExcludeOnly(j)) =>
            \A names \in FieldOrders(j) :
                Range(names) = Retained(j) /\ InSchemaOrder(j, names)

\* C11 amended: the records hold exactly the retained fields; with an
\* exclude-list they are in schema declaration order, with an include-list in
\* the order the list names them.
C11_ListOrder ==
    \A j \in JobIds :
        (IncludeOnly(j) \/ ExcludeOnly(j)) =>
            \A names \in FieldOrders(j) :
                /\ Range(names) = Retained(j)
                /\ IncludeOnly(j) => names = Get(jobs[j].fieldnames_include)
                /\ ExcludeOnly(j) => InSchemaOrder(j, names)

\* an include-list that names "id" before "val", against the schema's order:
\* the record is written with "id" first
C11_Witness ==
    \E j \in JobIds :
        /\ IncludeOnly(j) /\ status[j] = "done"
        /\ ~args.drop_empty /\ ~args.sort_keys
        /\ Len(Written(j)) > 0
        /\ Names(Written(j)[1]) = <<"id", "val">>
        /\ ~InSchemaOrder(j, Names(Written(j)[1]))

====
